---- MODULE Spec2Model ----
(***************************************************************************)
(* A model of the Shift circuit breaker (package shift) and of its default *)
(* TimeBucketCounter.  Callers are goroutines that call Run and Trip; the  *)
(* open->half-open resetter is a time.AfterFunc timer whose callback runs  *)
(* Trip(StateHalfOpen) on a goroutine of its own.  Every acquisition of a  *)
(* lock (the breaker's RWMutex, the counter's RWMutex) is one atomic step. *)
(***************************************************************************)
EXTENDS Integers, Sequences, FiniteSets, TLC

(***************************************************************************)
(* Bounds of the model.                                                    *)
(***************************************************************************)
\* total number of Run and Trip calls the callers make
MaxCalls == 2
\* number of buckets of the counter (NewTimeBucketCounter's capacity)
Capacity == 1
\* number of restrictors given to WithRestrictors
NumRestrictors == 2
\* total number of Trip calls the callers make when they only trip
MaxTrips == 3
\* total number of Run calls the callers make when they only run
MaxRuns == 3
\* minRequests given to WithOpener and WithCloser
OptMinRequests == 1
\* minSuccessRatio given to WithOpener and WithCloser, in percent
OptMinSuccessRatio == 50
\* minRequests and minSuccessRatio given to WithOpener(StateHalfOpen, ...)
OptHalfOpenMinRequests == OptMinRequests + 1
OptHalfOpenMinSuccessRatio == OptMinSuccessRatio
\* the largest count of a metric in the grid of Stats values the handlers
\* are applied to, and in the window of a counter that is used on its own
MaxCount == 2
\* the rotation tasks, pending or running, that a counter used on its own has
\* at most
MaxTasks == 2
\* the options New is given at most
MaxOptions == 2

(***************************************************************************)
(* State: the values of type State.                                        *)
(***************************************************************************)
StateUnknown == 0
StateClose == 1
StateHalfOpen == 2
StateOpen == 3

\* every value a State can be given by a caller
States == {StateUnknown, StateClose, StateHalfOpen, StateOpen}

isClose(s) == s = StateClose

isHalfOpen(s) == s = StateHalfOpen

isOpen(s) == s = StateOpen

(***************************************************************************)
(* Metrics and Stats.                                                      *)
(***************************************************************************)
metricSuccess == "success"
metricFailure == "failure"
metricTimeout == "timeout"
metricReject == "reject"

Metrics == {metricSuccess, metricFailure, metricTimeout, metricReject}

\* a Go map read of a missing key gives 0, so a bucket is a total function
EmptyBucket == [m \in Metrics |-> 0]

(***************************************************************************)
(* uint32 arithmetic.  A count is kept as the representative of its        *)
(* residue modulo 2^32 that lies in -2^31 .. 2^31-1: a negative            *)
(* representative v stands for the uint32 value v + 2^32.                  *)
(***************************************************************************)
U32Less(a, b) ==
    IF a >= 0 /\ b >= 0 THEN a < b
    ELSE IF a >= 0 THEN TRUE
    ELSE IF b >= 0 THEN FALSE
    ELSE a < b

\* newStats: the Stats value of a metrics map
newStats(metrics) ==
    [SuccessCount |-> metrics[metricSuccess],
     FailureCount |-> metrics[metricFailure],
     TimeoutCount |-> metrics[metricTimeout],
     RejectCount |-> metrics[metricReject]]

(***************************************************************************)
(* TimeBucketCounter: stats is the window aggregate, buckets the ring, the *)
(* last bucket being the current one.  timer is the status of the          *)
(* time.Timer that c.timer points to; tasks counts the pending timers that *)
(* c.timer no longer points to, and drops the timers that fired and whose  *)
(* drop has not taken the counter's lock yet.                              *)
(***************************************************************************)
\* resetTimer: c.timer.Stop() and c.timer = time.AfterFunc(c.duration, c.drop);
\* Stop has no effect on a timer that fired, whose drop stays to run
CounterResetTimer(c) == [c EXCEPT !.timer = "pending"]

\* a faulty Reset: it leaves the buckets as they are
CounterResetStats(c) == CounterResetTimer([c EXCEPT !.stats = EmptyBucket])

\* Reset: resetStats, resetBuckets, resetTimer
CounterReset(c) ==
    CounterResetTimer(
        [c EXCEPT !.stats = EmptyBucket,
                  !.buckets = [i \in 1..Len(c.buckets) |-> EmptyBucket]])

\* the counter NewTimeBucketCounter returns: its deferred Reset arms the
\* first timer
NewTimeBucketCounter(capacity) ==
    CounterReset([stats |-> EmptyBucket,
                  buckets |-> [i \in 1..capacity |-> EmptyBucket],
                  timer |-> "nil",
                  tasks |-> 0,
                  drops |-> 0])

\* a faulty Increment: the increment lands in the oldest bucket
CounterIncrementOldest(c, metric) ==
    [c EXCEPT !.stats[metric] = @ + 1, !.buckets[1][metric] = @ + 1]

\* Increment
CounterIncrement(c, metric) ==
    [c EXCEPT !.stats[metric] = @ + 1,
              !.buckets[Len(c.buckets)][metric] = @ + 1]

\* Stats, for the four metrics the breaker asks for
CounterStats(c) == [m \in Metrics |-> c.stats[m]]

\* the timer c.timer points to fires: the runtime starts drop on a goroutine
\* of its own
CounterFire(c) == [c EXCEPT !.timer = "fired", !.drops = @ + 1]

\* a timer that c.timer no longer points to fires
CounterFireTask(c) == [c EXCEPT !.tasks = @ - 1, !.drops = @ + 1]

\* a faulty drop: the aggregate keeps the counts of the bucket it drops
CounterDropKeepsStats(c) ==
    LET n == Len(c.buckets) IN
    [c EXCEPT !.buckets = [i \in 1..n |-> IF i < n THEN c.buckets[i + 1]
                                                  ELSE EmptyBucket],
              !.timer = "pending",
              !.tasks = IF c.timer = "pending" THEN @ + 1 ELSE @,
              !.drops = @ - 1]

\* drop, the rotation of the window, run by a timer that fired: it arms the
\* next timer and stores it in c.timer, whatever c.timer pointed to
CounterDrop(c) ==
    LET n == Len(c.buckets) IN
    [c EXCEPT !.stats = [m \in Metrics |-> c.stats[m] - c.buckets[1][m]],
              !.buckets = [i \in 1..n |-> IF i < n THEN c.buckets[i + 1]
                                                  ELSE EmptyBucket],
              !.timer = "pending",
              !.tasks = IF c.timer = "pending" THEN @ + 1 ELSE @,
              !.drops = @ - 1]

(***************************************************************************)
(* float32 arithmetic of the auto-trip handlers.  A positive float32 is    *)
(* [m, e], standing for m * 2^e with 2^23 <= m < 2^24; every operation     *)
(* rounds to nearest, ties to even.  Counts below 2^24 convert exactly.    *)
(***************************************************************************)
\* one step of the binary long division by r: the next bit of the quotient
LongDivStep(d, r) ==
    IF 2 * d.rem >= r
    THEN [q |-> 2 * d.q + 1, rem |-> 2 * d.rem - r, e |-> d.e - 1]
    ELSE [q |-> 2 * d.q, rem |-> 2 * d.rem, e |-> d.e - 1]

RECURSIVE LongDivFrom(_, _)
\* the steps from x on; d is the value of x, computed once
LongDivFrom(x, r) ==
    CHOOSE z \in {IF d.q >= 2^25 THEN d
                  ELSE LongDivFrom(LongDivStep(d, r), r) : d \in {x}} : TRUE

\* binary long division: quotient bits until the quotient has 26 bits
LongDiv(q, rem, r, e) == LongDivFrom([q |-> q, rem |-> rem, e |-> e], r)

\* a mantissa of 2^24 after rounding up is renormalised
F32Norm(m, e) == IF m = 2^24 THEN [m |-> 2^23, e |-> e + 1] ELSE [m |-> m, e |-> e]

\* the quotient d of the long division, rounded to 24 bits
F32Round(d) ==
    LET m == d.q \div 4
        low == d.q % 4
        up == low = 3 \/ (low = 2 /\ (d.rem > 0 \/ m % 2 = 1))
    IN F32Norm(IF up THEN m + 1 ELSE m, d.e + 2)

\* float32(s) / float32(r), for 1 <= s, 1 <= r
F32Div(s, r) ==
    CHOOSE z \in {F32Round(d) : d \in {LongDiv(s \div r, s % r, r, 0)}} : TRUE

\* the product n * 2^e, rounded to 24 bits, for 2^23 * 100 <= n < 2^24 * 100
F32RoundProduct(n, e) ==
    LET sh == IF n < 2^30 THEN 6 ELSE 7
        m == n \div 2^sh
        low == n % 2^sh
        half == 2^(sh - 1)
        up == low > half \/ (low = half /\ m % 2 = 1)
    IN F32Norm(IF up THEN m + 1 ELSE m, e + sh)

\* x * 100
F32Mul100(x) ==
    CHOOSE z \in {F32RoundProduct(v.m * 100, v.e) : v \in {x}} : TRUE

\* x < t/2, for a threshold of t half-percents, 1 <= t <= 200
F32LessHalves(x, t) ==
    \E v \in {x} :
        LET k == -(v.e + 1)
        IN IF k <= 0 THEN FALSE
           ELSE IF k >= 24 THEN TRUE
           ELSE v.m < t * 2^k

\* ratio := float32(stats.SuccessCount) / float32(requests) * 100 and the
\* test ratio < minSuccessRatio, the threshold given in half-percents.  A
\* wrapped requests (negative representative) is at least 2^31, so that the
\* ratio is below 1 and below every threshold of the model.
RatioLess(success, requests, minSuccessRatio2) ==
    IF success = 0 \/ requests < 0 THEN TRUE
    ELSE F32LessHalves(F32Mul100(F32Div(success, requests)), minSuccessRatio2)

\* requests := stats.SuccessCount + stats.FailureCount - stats.RejectCount
Requests(stats) == stats.SuccessCount + stats.FailureCount - stats.RejectCount

\* the handler of WithOpener: TRUE when it calls Trip(StateOpen)
OpenerTrips(stats, minSuccessRatio2, minRequests) ==
    IF U32Less(Requests(stats), minRequests) THEN FALSE
    ELSE RatioLess(stats.SuccessCount, Requests(stats), minSuccessRatio2)

\* a faulty closer: it never calls Trip
CloserNeverTrips(stats, minSuccessRatio2, minRequests) == FALSE

\* the handler of WithCloser: TRUE when it calls Trip(StateClose)
CloserTrips(stats, minSuccessRatio2, minRequests) ==
    IF U32Less(Requests(stats), minRequests) THEN FALSE
    ELSE ~RatioLess(stats.SuccessCount, Requests(stats), minSuccessRatio2)

(***************************************************************************)
(* The breaker.                                                            *)
(***************************************************************************)
\* the caller goroutines
Procs == {1, 2}

\* a resetter timer is created by New and by every open(); a call opens the
\* breaker at most once
TimerIds ==
    LET m == IF MaxTrips > MaxCalls THEN MaxTrips ELSE MaxCalls
    IN 1..((IF MaxRuns > m THEN MaxRuns ELSE m) + 1)

\* the goroutine on which timer k runs its function
TimerThread(k) == Cardinality(Procs) + k

Threads == Procs \cup {TimerThread(k) : k \in TimerIds}

\* the errors Run and Trip return ("" is nil)
NoError == ""
IsOnOpenStateError == "IsOnOpenState"
InvocationTimeoutError == "InvocationTimeout"
OperationError == "operation"
RestrictorError == "restrictor"
IsAlreadyInDesiredStateError == "IsAlreadyInDesiredState"
UnknownStateError == "UnknownState"

VARIABLES
    state,       \* Shift.state
    mutex,       \* the goroutine holding Shift.mutex for writing, 0 when free
    counter,     \* Shift.counter, a TimeBucketCounter
    resetTimer,  \* Shift.resetTimer: the Next calls since its last Reset
    timers,      \* every time.Timer made for Shift.resetter, by its status
    resetter,    \* Shift.resetter: the index in timers of the current one
    pc,          \* where each goroutine is in Run or Trip
    ctxState,    \* ctx.Value(CtxState) of the goroutine's Run
    err,         \* the error of the goroutine's Run
    opRan,       \* whether the goroutine's Run started o.Execute
    checked,     \* how many restrictors' Check the goroutine's run entered
    deferred,    \* the restrictors whose Defer run called at its return
    target,      \* the to of the goroutine's Trip
    trigger,     \* who called the goroutine's Trip
    from,        \* the state that trip read under the lock
    tripErr,     \* the error of the goroutine's Trip
    changes,     \* the (from, to) the state change handlers last ran with
    calls,       \* the Run and Trip calls the callers made
    ctx,         \* ctx.Err() of the context the goroutine gives to Run
    opts,        \* the options New was given
    newErr,      \* the error of New
    failureHandlers,  \* Shift.failureHandlers
    successHandlers,  \* Shift.successHandlers
    cmutex,      \* TimeBucketCounter.mutex: its writer and its readers
    cpc,         \* where each method of the counter is under c.mutex
    snapshot,    \* the map that Stats fills
    points,      \* the aggregates between whole operations during a Stats
    stateChangeHandlers,  \* Shift.stateChangeHandlers
    tripStats,   \* the stats that the goroutine's Trip read for its handlers
    threshold,   \* ConcurrentRunRestrictor.threshold, 0 without the restrictor
    current,     \* ConcurrentRunRestrictor.current
    orphans      \* the operations that execute after their Run timed out

vars == <<state, mutex, counter, resetTimer, timers, resetter, pc, ctxState,
          err, opRan, checked, deferred, target, trigger, from, tripErr,
          changes, calls, ctx, opts, newErr, failureHandlers,
          successHandlers, cmutex, cpc, snapshot, points,
          stateChangeHandlers, tripStats, threshold, current, orphans>>

\* what New made of its options
constructionVars == <<opts, newErr, failureHandlers, successHandlers>>
\* the inside of the counter's methods: a step of Run or Trip takes a method
\* of the counter as a whole
lockVars == <<cmutex, cpc, snapshot, points>>
\* what no step of Run or Trip changes
givenVars ==
    <<ctx, constructionVars, lockVars, stateChangeHandlers, threshold>>
\* the runs that a ConcurrentRunRestrictor admitted, and their operations
concurrentVars == <<current, orphans>>

breakerVars == <<state, mutex, resetTimer, timers, resetter>>
restrictorVars == <<checked, deferred>>
runVars == <<ctxState, err, opRan, restrictorVars>>
tripVars == <<target, trigger, from, tripErr, tripStats>>

\* s.stats()
stats == newStats(CounterStats(counter))

\* New: the failure handlers of a state
FailureHandlers(st) ==
    CASE st = StateClose -> <<"closeOpener">>
      [] st = StateHalfOpen -> <<"closeOpener">>
      [] OTHER -> <<>>

\* New: the success handlers of a state
SuccessHandlers(st) ==
    CASE st = StateHalfOpen -> <<"halfOpenCloser">>
      [] OTHER -> <<>>

\* New: the invoker of a state; a state that is no key of the map has none
Invokers(st) ==
    CASE st = StateClose -> "deadlineInvoker"
      [] st = StateHalfOpen -> "deadlineInvoker"
      [] st = StateOpen -> "onOpenInvoker"
      [] OTHER -> "nil"

\* the states WithInitialState accepts
InitialStates == States

(***************************************************************************)
(* New and its options.  An option is a record of its name and arguments;  *)
(* a handler is named after the field of Shift that WithOpener and         *)
(* WithCloser store it in, a user's handler after its place in the user's  *)
(* program.                                                                *)
(***************************************************************************)
InvalidOptionError == "InvalidOption"

WithInitialState(st) ==
    [name |-> "WithInitialState", state |-> st, handlers |-> <<>>]

WithFailureHandlers(st, hs) ==
    [name |-> "WithFailureHandlers", state |-> st, handlers |-> hs]

WithSuccessHandlers(st, hs) ==
    [name |-> "WithSuccessHandlers", state |-> st, handlers |-> hs]

WithOpener(st) == [name |-> "WithOpener", state |-> st, handlers |-> <<>>]

WithCloser ==
    [name |-> "WithCloser", state |-> StateHalfOpen, handlers |-> <<>>]

\* the Shift that New makes before it applies the options
NewShift ==
    [state |-> StateClose,
     failureHandlers |-> [st \in States |-> <<>>],
     successHandlers |-> [st \in States |-> <<>>],
     closeOpener |-> "nil",
     halfOpenOpener |-> "nil",
     halfOpenCloser |-> "nil",
     err |-> NoError]

\* opt(s): the option applied to the Shift s
ApplyOption(s, o) ==
    CASE o.name = "WithInitialState" -> [s EXCEPT !.state = o.state]
      [] o.name = "WithFailureHandlers" ->
           IF \E i \in 1..Len(o.handlers) : o.handlers[i] = "nil"
           THEN [s EXCEPT !.err = InvalidOptionError]
           ELSE [s EXCEPT !.failureHandlers[o.state] = @ \o o.handlers]
      [] o.name = "WithSuccessHandlers" ->
           IF \E i \in 1..Len(o.handlers) : o.handlers[i] = "nil"
           THEN [s EXCEPT !.err = InvalidOptionError]
           ELSE [s EXCEPT !.successHandlers[o.state] = @ \o o.handlers]
      [] o.name = "WithOpener" ->
           IF ~isClose(o.state) /\ ~isHalfOpen(o.state)
           THEN [s EXCEPT !.err = InvalidOptionError]
           ELSE IF isHalfOpen(o.state)
           THEN [s EXCEPT !.halfOpenOpener = "halfOpenOpener"]
           ELSE [s EXCEPT !.closeOpener = "closeOpener"]
      [] o.name = "WithCloser" ->
           [s EXCEPT !.halfOpenCloser = "halfOpenCloser"]

\* New: the loop over the options, which ends at the first error
RECURSIVE ApplyOptions(_, _, _)
ApplyOptions(s, os, i) ==
    IF i > Len(os) \/ s.err # NoError THEN s
    ELSE ApplyOptions(ApplyOption(s, os[i]), os, i + 1)

\* New: an auto-trip handler that no option made is made with the default
\* thresholds
DefaultHandlers(s) ==
    LET a == IF s.closeOpener = "nil"
             THEN ApplyOption(s, WithOpener(StateClose)) ELSE s
        b == IF a.halfOpenOpener = "nil"
             THEN ApplyOption(a, WithOpener(StateHalfOpen)) ELSE a
    IN IF b.halfOpenCloser = "nil" THEN ApplyOption(b, WithCloser) ELSE b

\* New: the auto-trip handlers are put in front of the chains
InstallHandlers(s) ==
    LET d == DefaultHandlers(s) IN
    [d EXCEPT !.failureHandlers[StateClose] = <<d.closeOpener>> \o @,
              !.failureHandlers[StateHalfOpen] = <<d.closeOpener>> \o @,
              !.successHandlers[StateHalfOpen] = <<d.halfOpenCloser>> \o @]

\* New(name, opts...): the Shift it returns, or its error
New(os) ==
    LET s == ApplyOptions(NewShift, os, 1)
    IN IF s.err # NoError THEN s ELSE InstallHandlers(s)

\* the methods of the counter that take c.mutex
CounterOps == {"Stats", "Increment", "drop", "Reset"}

\* where a method is before it takes c.mutex
Idle == [at |-> "idle", metrics |-> {}]

\* no goroutine is in a method of the counter
NoCounterCall ==
    /\ cmutex = [writer |-> "none", readers |-> 0]
    /\ cpc = [o \in CounterOps |-> Idle]
    /\ snapshot = EmptyBucket
    /\ points = {}

\* no goroutine has called the breaker, whose counter has the given capacity
NoCall(capacity) ==
    /\ mutex = 0
    /\ counter = NewTimeBucketCounter(capacity)
    /\ resetTimer = 0
    /\ timers = <<"pending">>
    /\ resetter = 1
    /\ pc = [t \in Threads |-> IF t \in Procs THEN "idle" ELSE "timer"]
    /\ ctxState = [t \in Threads |-> StateUnknown]
    /\ err = [t \in Threads |-> NoError]
    /\ opRan = [t \in Threads |-> FALSE]
    /\ checked = [t \in Threads |-> 0]
    /\ deferred = [t \in Threads |-> <<>>]
    /\ target = [t \in Threads |-> StateUnknown]
    /\ trigger = [t \in Threads |-> "none"]
    /\ from = [t \in Threads |-> StateUnknown]
    /\ tripErr = [t \in Threads |-> NoError]
    /\ changes = <<>>
    /\ calls = 0
    /\ ctx = [t \in Threads |-> NoError]
    /\ tripStats = [t \in Threads |-> newStats(EmptyBucket)]
    /\ NoCounterCall
    /\ current = 0
    /\ orphans = 0

\* New with WithInitialState(s), WithOpener, WithCloser and a counter of the
\* given capacity, after it returned: its options are gone
Built(capacity) ==
    /\ state \in InitialStates
    /\ NoCall(capacity)
    /\ opts = <<>>
    /\ newErr = NoError
    /\ failureHandlers = [st \in States |-> FailureHandlers(st)]
    /\ successHandlers = [st \in States |-> SuccessHandlers(st)]

\* New without WithStateChangeHandlers and without a ConcurrentRunRestrictor
InitWith(capacity) ==
    /\ Built(capacity)
    /\ stateChangeHandlers = <<>>
    /\ threshold = 0

Init == InitWith(Capacity)

\* a faulty mutex: Lock and RLock can always be taken
MutexIgnored == TRUE

\* sync.RWMutex: whether Lock and RLock can be taken
MutexFree == mutex = 0

\* where a goroutine is after its call returned
Returned(t) == IF t \in Procs THEN "idle" ELSE "done"

(***************************************************************************)
(* Run.  A step that touches nothing shared is taken together with the     *)
(* step that follows it.                                                   *)
(***************************************************************************)
\* Run: ctx = context.WithValue(ctx, CtxState, s.currentState())
RunEnter(t) ==
    /\ t \in Procs
    /\ pc[t] = "idle"
    /\ MutexFree
    /\ ctxState' = [ctxState EXCEPT ![t] = state]
    /\ err' = [err EXCEPT ![t] = NoError]
    /\ opRan' = [opRan EXCEPT ![t] = FALSE]
    /\ checked' = [checked EXCEPT ![t] = 0]
    /\ deferred' = [deferred EXCEPT ![t] = <<>>]
    /\ pc' = [pc EXCEPT ![t] = "run"]
    /\ target' = [target EXCEPT ![t] = StateUnknown]
    /\ tripErr' = [tripErr EXCEPT ![t] = NoError]
    /\ UNCHANGED <<breakerVars, counter, trigger, from, tripStats, changes,
                   givenVars, concurrentVars>>

\* Run, one of the max calls the callers make
RunWithin(t, max) ==
    /\ calls < max
    /\ calls' = calls + 1
    /\ RunEnter(t)

\* Run of a caller that also calls Trip
RunStart(t) == RunWithin(t, MaxCalls)

\* Run of a caller that only runs
RunOnly(t) == RunWithin(t, MaxRuns)

\* faulty defers: the restrictors are deferred in the order of their checks
DefersInOrder(k) == [i \in 1..k |-> i]

\* run: the deferred r.Defer() calls of a run that entered the Check of the
\* first k restrictors run at its return, the last deferred first
Defers(k) == [i \in 1..k |-> k + 1 - i]

\* run returns after it entered the Check of the first k restrictors
RunDefers(t, k) ==
    /\ checked' = [checked EXCEPT ![t] = k]
    /\ deferred' = [deferred EXCEPT ![t] = Defers(k)]

\* whether the breaker has a ConcurrentRunRestrictor
Restricted == threshold > 0

\* ConcurrentRunRestrictor.Check, n being atomic.AddInt64(&r.current, 1)
Check(n) == ~(threshold < n)

\* run: the Check of restrictor k returns !ok, with the error e, after the
\* restrictors before it returned ok; a ConcurrentRunRestrictor does so when
\* r.current is over its threshold, and the deferred Defer undoes the add of
\* Check when run returns
RunReject(t) ==
    /\ pc[t] = "run"
    /\ NumRestrictors > 0
    /\ Restricted => ~Check(current + 1)
    /\ \E e \in {NoError, RestrictorError} : err' = [err EXCEPT ![t] = e]
    /\ \E k \in 1..NumRestrictors : RunDefers(t, k)
    /\ counter' = CounterIncrement(counter, metricReject)
    /\ pc' = [pc EXCEPT ![t] = "count"]
    /\ UNCHANGED <<breakerVars, ctxState, opRan, tripVars, changes, calls,
                   givenVars, concurrentVars>>

\* run, when a ConcurrentRunRestrictor is there: the operation starts after
\* Check added the run to r.current
Admitted == current' = IF Restricted THEN current + 1 ELSE current

\* run, when a ConcurrentRunRestrictor is there: the deferred Defer takes the
\* run from r.current when run returns
Deferred == current' = IF Restricted THEN current - 1 ELSE current

\* the locals of a call are gone when it returns, those of run when the
\* callbacks start: what stays is what the caller got, the error of Run and
\* the error of Trip
RunReturns(t) ==
    /\ ctxState' = [ctxState EXCEPT ![t] = StateUnknown]
    /\ opRan' = [opRan EXCEPT ![t] = FALSE]
    /\ checked' = [checked EXCEPT ![t] = 0]
    /\ deferred' = [deferred EXCEPT ![t] = <<>>]

\* the Stats value of a window without counts, which stands for the stats of
\* a goroutine that is in no Trip
NoStats == newStats(EmptyBucket)

TripReturns(t) ==
    /\ trigger' = [trigger EXCEPT ![t] = "none"]
    /\ from' = [from EXCEPT ![t] = StateUnknown]
    /\ tripStats' = [tripStats EXCEPT ![t] = NoStats]

\* a faulty lookup: the state the breaker is in now, not the one of the context
CtxStateNow(t) == state

\* run, runSuccessCallbacks, runFailureCallbacks:
\* state := ctx.Value(CtxState).(State)
CtxState(t) == ctxState[t]

\* a faulty open invoker: it starts the operation as the deadline invoker does
onOpenInvokeExecutes(t) ==
    /\ opRan' = [opRan EXCEPT ![t] = TRUE]
    /\ pc' = [pc EXCEPT ![t] = "select"]
    /\ checked' = [checked EXCEPT ![t] = NumRestrictors]
    /\ Admitted
    /\ UNCHANGED <<counter, err, deferred>>

\* onOpenInvoker.invoke
onOpenInvoke(t) ==
    /\ counter' = CounterIncrement(counter, metricReject)
    /\ err' = [err EXCEPT ![t] = IsOnOpenStateError]
    /\ pc' = [pc EXCEPT ![t] = "count"]
    /\ RunDefers(t, NumRestrictors)
    /\ UNCHANGED <<opRan, current>>

\* deadlineInvoker.invoke up to its select: async starts o.Execute on a
\* goroutine of its own
deadlineInvoke(t) ==
    /\ opRan' = [opRan EXCEPT ![t] = TRUE]
    /\ pc' = [pc EXCEPT ![t] = "select"]
    /\ checked' = [checked EXCEPT ![t] = NumRestrictors]
    /\ Admitted
    /\ UNCHANGED <<counter, err, deferred>>

\* run: every restrictor's Check returns ok, then
\* s.invokers[state].invoke(ctx, o); the call on the nil invoker of a state
\* that is no key of s.invokers panics
RunInvoke(t) ==
    /\ pc[t] = "run"
    /\ Restricted => Check(current + 1)
    /\ CASE Invokers(CtxState(t)) = "onOpenInvoker" -> onOpenInvoke(t)
         [] Invokers(CtxState(t)) = "deadlineInvoker" -> deadlineInvoke(t)
         [] OTHER -> /\ pc' = [pc EXCEPT ![t] = "panic"]
                     /\ RunDefers(t, NumRestrictors)
                     /\ UNCHANGED <<counter, err, opRan, current>>
    /\ UNCHANGED <<breakerVars, ctxState, tripVars, changes, calls, givenVars,
                   orphans>>

\* run: a restrictor's Check returns ok together with the error e; run tests
\* ok only, and goes on to the next restrictor or to the invoker
RunAdmit(t, e) ==
    /\ NumRestrictors > 0
    /\ RunInvoke(t)

\* a faulty deadline invoker: its select has no case for ctx.Done()
RunNeverTimesOut(t) ==
    /\ FALSE
    /\ UNCHANGED vars

\* a faulty deadline invoker: it does not call the timeout callback
RunTimeoutUncounted(t) ==
    /\ pc[t] = "select"
    /\ err' = [err EXCEPT ![t] = InvocationTimeoutError]
    /\ RunDefers(t, checked[t])
    /\ pc' = [pc EXCEPT ![t] = "count"]
    /\ Deferred
    /\ orphans' = IF Restricted THEN orphans + 1 ELSE orphans
    /\ UNCHANGED <<breakerVars, counter, ctxState, opRan, tripVars, changes,
                   calls, givenVars>>

\* deadlineInvoker.invoke: the select receives from ctx.Done(); the
\* operation goes on on its goroutine
RunTimeout(t) ==
    /\ pc[t] = "select"
    /\ counter' = CounterIncrement(counter, metricTimeout)
    /\ err' = [err EXCEPT ![t] = InvocationTimeoutError]
    /\ RunDefers(t, checked[t])
    /\ pc' = [pc EXCEPT ![t] = "count"]
    /\ Deferred
    /\ orphans' = IF Restricted THEN orphans + 1 ELSE orphans
    /\ UNCHANGED <<breakerVars, ctxState, opRan, tripVars, changes, calls,
                   givenVars>>

\* the handlers runWithCallbacks runs for the error and the state of the call
HandlersOf(e, st) ==
    IF e = NoError THEN successHandlers[st] ELSE failureHandlers[st]

\* faulty callbacks: the call is not counted
CallbacksUncounted(t, e) ==
    /\ counter' = counter
    /\ IF Len(HandlersOf(e, CtxState(t))) = 0
       THEN /\ pc' = [pc EXCEPT ![t] = Returned(t)]
            /\ RunReturns(t)
       ELSE /\ pc' = [pc EXCEPT ![t] = "handle"]
            /\ checked' = [checked EXCEPT ![t] = 0]
            /\ deferred' = [deferred EXCEPT ![t] = <<>>]
            /\ UNCHANGED <<ctxState, opRan>>

\* runSuccessCallbacks, runFailureCallbacks of a call with the error e: the
\* Increment, and the return when the state has no handler
Callbacks(t, e) ==
    /\ counter' = CounterIncrement(counter,
                     IF e = NoError THEN metricSuccess ELSE metricFailure)
    /\ IF Len(HandlersOf(e, CtxState(t))) = 0
       THEN /\ pc' = [pc EXCEPT ![t] = Returned(t)]
            /\ RunReturns(t)
       ELSE /\ pc' = [pc EXCEPT ![t] = "handle"]
            /\ checked' = [checked EXCEPT ![t] = 0]
            /\ deferred' = [deferred EXCEPT ![t] = <<>>]
            /\ UNCHANGED <<ctxState, opRan>>

\* a faulty deadline invoker: it calls the timeout callback when the
\* operation completes
RunOperationDoneTimed(t) ==
    /\ pc[t] = "select"
    /\ \E e \in {NoError, OperationError} : err' = [err EXCEPT ![t] = e]
    /\ counter' = CounterIncrement(counter, metricTimeout)
    /\ RunDefers(t, checked[t])
    /\ pc' = [pc EXCEPT ![t] = "count"]
    /\ Deferred
    /\ UNCHANGED <<breakerVars, ctxState, opRan, tripVars, changes, calls,
                   givenVars, orphans>>

\* deadlineInvoker.invoke: the select receives the operation's result e
RunOperationDone(t) ==
    /\ pc[t] = "select"
    /\ \E e \in {NoError, OperationError} : err' = [err EXCEPT ![t] = e]
    /\ RunDefers(t, checked[t])
    /\ pc' = [pc EXCEPT ![t] = "count"]
    /\ Deferred
    /\ UNCHANGED <<breakerVars, counter, ctxState, opRan, tripVars, changes,
                   calls, givenVars, orphans>>

\* runWithCallbacks counts the call by the error of run
RunCount(t) ==
    /\ pc[t] = "count"
    /\ Callbacks(t, err[t])
    /\ UNCHANGED <<breakerVars, err, tripVars, changes, calls, givenVars,
                   concurrentVars>>

\* the state an auto-trip handler trips to on the given stats, StateUnknown
\* when it does not trip; the thresholds are those its option was given
HandlerTrips(h, st, minSuccessRatio2, minRequests) ==
    CASE h = "closeOpener" /\ OpenerTrips(st, minSuccessRatio2, minRequests)
           -> StateOpen
      [] h = "halfOpenOpener" /\ OpenerTrips(st, minSuccessRatio2, minRequests)
           -> StateOpen
      [] h = "halfOpenCloser" /\ CloserTrips(st, minSuccessRatio2, minRequests)
           -> StateClose
      [] OTHER -> StateUnknown

\* runSuccessCallbacks, runFailureCallbacks: s.stats() and the handlers, up
\* to the handler's call of Trip, on a breaker whose WithOpener and WithCloser
\* got the given thresholds
RunHandleWith(t, minSuccessRatio2, minRequests) ==
    /\ pc[t] = "handle"
    /\ LET to == HandlerTrips(HandlersOf(err[t], CtxState(t))[1], stats,
                              minSuccessRatio2, minRequests)
       IN IF to = StateUnknown
          THEN /\ pc' = [pc EXCEPT ![t] = Returned(t)]
               /\ RunReturns(t)
               /\ UNCHANGED <<target, trigger>>
          ELSE /\ pc' = [pc EXCEPT ![t] = "lock"]
               /\ target' = [target EXCEPT ![t] = to]
               /\ trigger' = [trigger EXCEPT ![t] =
                                 IF to = StateOpen THEN "opener" ELSE "closer"]
               /\ UNCHANGED <<ctxState, opRan, restrictorVars>>
    /\ UNCHANGED <<breakerVars, counter, err, from, tripErr, tripStats,
                   changes, calls, givenVars, concurrentVars>>

\* the handlers of the breaker of the model
RunHandle(t) == RunHandleWith(t, 2 * OptMinSuccessRatio, OptMinRequests)

(***************************************************************************)
(* Trip.                                                                   *)
(***************************************************************************)
\* a faulty test: the breaker is never found in the desired state
NeverInDesiredState(st, to) == FALSE

\* trip: whether the breaker is already in the desired state
AlreadyInDesiredState(st, to) == st = to

\* trip: the states the switch has a case for
KnownState(to) == to \in {StateClose, StateHalfOpen, StateOpen}

\* Trip: stats := s.stats(), read as late as it can be, when trip takes the
\* lock; the value is kept where a state change handler is there to get it
TripStats == IF Len(stateChangeHandlers) = 0 THEN NoStats ELSE stats

\* trip(to) of a Trip that the trigger "by" called: s.mutex.Lock(), the test
\* of the current state and the switch on the desired one; on an error it
\* unlocks and returns
trip(t, to, by) ==
    /\ MutexFree
    /\ IF AlreadyInDesiredState(state, to)
       THEN /\ tripErr' = [tripErr EXCEPT ![t] = IsAlreadyInDesiredStateError]
            /\ pc' = [pc EXCEPT ![t] = Returned(t)]
            /\ TripReturns(t) /\ RunReturns(t)
            /\ UNCHANGED mutex
       ELSE IF KnownState(to)
       THEN /\ mutex' = t
            /\ from' = [from EXCEPT ![t] = state]
            /\ tripStats' = [tripStats EXCEPT ![t] = TripStats]
            /\ tripErr' = [tripErr EXCEPT ![t] = NoError]
            /\ trigger' = [trigger EXCEPT ![t] = by]
            /\ pc' = [pc EXCEPT ![t] = "set"]
            /\ UNCHANGED <<ctxState, opRan, restrictorVars>>
       ELSE /\ tripErr' = [tripErr EXCEPT ![t] = UnknownStateError]
            /\ pc' = [pc EXCEPT ![t] = Returned(t)]
            /\ TripReturns(t) /\ RunReturns(t)
            /\ UNCHANGED mutex
    /\ UNCHANGED <<state, resetTimer, timers, resetter, counter, changes>>

\* a caller's Trip(to), up to the return of trip or to its close, halfOpen
\* or open
TripWithin(t, to, max) ==
    /\ t \in Procs
    /\ pc[t] = "idle"
    /\ calls < max
    /\ calls' = calls + 1
    /\ target' = [target EXCEPT ![t] = to]
    /\ err' = [err EXCEPT ![t] = NoError]
    /\ trip(t, to, "external")
    /\ UNCHANGED <<givenVars, concurrentVars>>

\* Trip(to) of a caller that also calls Run
TripCall(t, to) == TripWithin(t, to, MaxCalls)

\* Trip(to) of a caller that only trips
TripOnly(t, to) == TripWithin(t, to, MaxTrips)

\* Trip(to) of a handler or of the resetter, up to the return of trip or to
\* its close, halfOpen or open
TripLock(t) ==
    /\ pc[t] = "lock"
    /\ trip(t, target[t], trigger[t])
    /\ UNCHANGED <<err, target, calls, givenVars, concurrentVars>>

\* a faulty Stop: it leaves the timer as it is
StopNothing(ts, k) == ts

\* time.Timer.Stop
Stop(ts, k) == IF ts[k] = "pending" THEN [ts EXCEPT ![k] = "stopped"] ELSE ts

\* time.AfterFunc
AfterFunc(ts) == Append(ts, "pending")

\* close, up to its counter.Reset
close ==
    /\ state' = StateClose
    /\ resetTimer' = 0
    /\ UNCHANGED <<timers, resetter>>

\* halfOpen, up to its counter.Reset
halfOpen ==
    /\ state' = StateHalfOpen
    /\ UNCHANGED <<resetTimer, timers, resetter>>

\* a faulty open: it arms no timer
openUnarmed ==
    /\ resetTimer' = resetTimer + 1
    /\ timers' = Stop(timers, resetter)
    /\ resetter' = resetter
    /\ state' = StateOpen

\* open, up to its counter.Reset
open ==
    /\ resetTimer' = resetTimer + 1
    /\ timers' = AfterFunc(Stop(timers, resetter))
    /\ resetter' = Len(timers) + 1
    /\ state' = StateOpen

\* trip: close, halfOpen or open, up to its counter.Reset
TripSet(t) ==
    /\ pc[t] = "set"
    /\ CASE target[t] = StateClose -> close
         [] target[t] = StateHalfOpen -> halfOpen
         [] target[t] = StateOpen -> open
    /\ pc' = [pc EXCEPT ![t] = "reset"]
    /\ UNCHANGED <<mutex, counter, runVars, tripVars, changes, calls,
                   givenVars, concurrentVars>>

\* a faulty trip: it returns to Trip, and to the state change handlers,
\* without the deferred s.mutex.Unlock()
TripResetLocked(t) ==
    /\ pc[t] = "reset"
    /\ counter' = CounterReset(counter)
    /\ pc' = [pc EXCEPT ![t] = "notify"]
    /\ UNCHANGED <<breakerVars, runVars, tripVars, changes, calls, givenVars,
                   concurrentVars>>

\* close, halfOpen, open: s.counter.Reset(), and trip's s.mutex.Unlock()
TripReset(t) ==
    /\ pc[t] = "reset"
    /\ counter' = CounterReset(counter)
    /\ mutex' = IF mutex = t THEN 0 ELSE mutex
    /\ pc' = [pc EXCEPT ![t] = "notify"]
    /\ UNCHANGED <<state, resetTimer, timers, resetter, runVars, tripVars,
                   changes, calls, givenVars, concurrentVars>>

\* Trip: runStateChangeCallbacks(from, to, stats)
TripNotify(t) ==
    /\ pc[t] = "notify"
    /\ changes' = <<from[t], target[t]>>
    /\ pc' = [pc EXCEPT ![t] = Returned(t)]
    /\ TripReturns(t) /\ RunReturns(t)
    /\ UNCHANGED <<breakerVars, counter, err, target, tripErr, calls,
                   givenVars, concurrentVars>>

(***************************************************************************)
(* The timers.                                                             *)
(***************************************************************************)
\* the resetter fires: the timer of New runs func() {}, a timer of open
\* runs s.Trip(StateHalfOpen) on its goroutine
ResetterFire(k) ==
    /\ k \in 1..Len(timers)
    /\ timers[k] = "pending"
    /\ timers' = [timers EXCEPT ![k] = "fired"]
    /\ IF k = 1
       THEN UNCHANGED <<pc, target, trigger>>
       ELSE /\ pc' = [pc EXCEPT ![TimerThread(k)] = "lock"]
            /\ target' = [target EXCEPT ![TimerThread(k)] = StateHalfOpen]
            /\ trigger' = [trigger EXCEPT ![TimerThread(k)] = "resetter"]
    /\ UNCHANGED <<state, mutex, counter, resetTimer, resetter, runVars, from,
                   tripStats,
                   tripErr, changes, calls, givenVars, concurrentVars>>

\* the steps of a Trip after its call
TripStep(t) ==
    \/ TripLock(t)
    \/ TripSet(t)
    \/ TripReset(t)
    \/ TripNotify(t)

\* the counter's timer fires and its drop takes the counter's lock at once
Drop ==
    /\ counter.timer = "pending"
    /\ counter' = CounterDrop(CounterFire(counter))
    /\ UNCHANGED <<breakerVars, pc, runVars, tripVars, changes, calls,
                   givenVars, concurrentVars>>

Next ==
    \/ \E t \in Threads :
         \/ RunStart(t)
         \/ RunReject(t)
         \/ RunInvoke(t)
         \/ RunOperationDone(t)
         \/ RunTimeout(t)
         \/ RunCount(t)
         \/ RunHandle(t)
         \/ \E to \in States : TripCall(t, to)
         \/ TripLock(t)
         \/ TripSet(t)
         \/ TripReset(t)
         \/ TripNotify(t)
    \/ \E k \in TimerIds : ResetterFire(k)
    \/ Drop

Spec == Init /\ [][Next]_vars

(***************************************************************************)
(* The breaker when every restrictor admits every call, as it is when New  *)
(* gets no WithRestrictors: a call is rejected by the open invoker only.   *)
(***************************************************************************)
AdmitNext ==
    \/ \E t \in Threads :
         \/ RunStart(t)
         \/ RunInvoke(t)
         \/ RunOperationDone(t)
         \/ RunTimeout(t)
         \/ RunCount(t)
         \/ RunHandle(t)
         \/ \E to \in States : TripCall(t, to)
         \/ TripStep(t)
    \/ \E k \in TimerIds : ResetterFire(k)
    \/ Drop

AdmitSpec == Init /\ [][AdmitNext]_vars

(***************************************************************************)
(* The breaker when its callers only call Trip.  A timer that is pending   *)
(* fires, and a goroutine that can take its next step takes it.            *)
(***************************************************************************)
TripNext ==
    \/ \E t \in Procs : \E to \in States : TripOnly(t, to)
    \/ \E t \in Threads : TripStep(t)
    \/ \E k \in TimerIds : ResetterFire(k)

TripSpec ==
    /\ Init
    /\ [][TripNext]_vars
    /\ \A k \in TimerIds : WF_vars(ResetterFire(k))
    /\ \A t \in Threads : WF_vars(TripStep(t))

(***************************************************************************)
(* The breaker when its callers only call Run and the window of the        *)
(* counter does not rotate: the counter is reset by the trips of the       *)
(* handlers and of the resetter only.                                      *)
(***************************************************************************)
RunStep(t) ==
    \/ RunReject(t)
    \/ RunInvoke(t)
    \/ RunOperationDone(t)
    \/ RunTimeout(t)
    \/ RunCount(t)
    \/ RunHandle(t)

RunNext ==
    \/ \E t \in Procs : RunOnly(t)
    \/ \E t \in Procs : RunStep(t)
    \/ \E t \in Threads : TripStep(t)
    \/ \E k \in TimerIds : ResetterFire(k)

RunSpec ==
    /\ Init
    /\ [][RunNext]_vars
    /\ \A k \in TimerIds : WF_vars(ResetterFire(k))
    /\ \A t \in Threads : WF_vars(TripStep(t))
    /\ \A t \in Procs : WF_vars(RunStep(t))

(***************************************************************************)
(* The breaker when its callers only call Run, every restrictor admits     *)
(* every call, and the opener and the closer were given one request and    *)
(* one percent more than those of the model: with minRequests of two at    *)
(* least, a burst has an order.                                            *)
(***************************************************************************)
BurstMinSuccessRatio == OptMinSuccessRatio + 1

BurstMinRequests == OptMinRequests + 1

BurstHandle(t) == RunHandleWith(t, 2 * BurstMinSuccessRatio, BurstMinRequests)

BurstStep(t) ==
    \/ RunInvoke(t)
    \/ RunOperationDone(t)
    \/ RunTimeout(t)
    \/ RunCount(t)
    \/ BurstHandle(t)

BurstNext ==
    \/ \E t \in Procs : RunOnly(t)
    \/ \E t \in Procs : BurstStep(t)
    \/ \E t \in Threads : TripStep(t)
    \/ \E k \in TimerIds : ResetterFire(k)

BurstSpec == Init /\ [][BurstNext]_vars

(***************************************************************************)
(* The breaker when its callers call Run without end and every operation   *)
(* succeeds in time: a caller calls again while the window holds fewer     *)
(* than MaxCount calls, the window rotates at any time or never, and the   *)
(* thresholds are those of a burst.  A goroutine that can take its next    *)
(* step takes it, a pending timer fires, and a call that can be made is    *)
(* made.                                                                   *)
(***************************************************************************)
\* Run, while the window has room
RunAgain(t) ==
    /\ stats.SuccessCount + stats.FailureCount < MaxCount
    /\ RunEnter(t)
    /\ UNCHANGED calls

\* deadlineInvoker.invoke: the select receives the result of an operation
\* that succeeded
RunOperationSucceeds(t) ==
    /\ RunOperationDone(t)
    /\ err'[t] = NoError

SuccessStep(t) ==
    \/ RunInvoke(t)
    \/ RunOperationSucceeds(t)
    \/ RunCount(t)
    \/ BurstHandle(t)

SuccessNext ==
    \/ \E t \in Procs : RunAgain(t)
    \/ \E t \in Procs : SuccessStep(t)
    \/ \E t \in Threads : TripStep(t)
    \/ \E k \in TimerIds : ResetterFire(k)
    \/ Drop

SuccessSpec ==
    /\ Init
    /\ [][SuccessNext]_vars
    /\ WF_vars(\E t \in Procs : RunAgain(t))
    /\ \A t \in Procs : WF_vars(SuccessStep(t))
    /\ \A t \in Threads : WF_vars(TripStep(t))
    /\ \A k \in TimerIds : WF_vars(ResetterFire(k))

(***************************************************************************)
(* The breaker when its callers only call Run, every restrictor admits     *)
(* every call, and an operation need not complete: a goroutine that can    *)
(* take its next step takes it and the deadline of the invoker passes, but *)
(* nothing makes the select receive a result.                              *)
(***************************************************************************)
\* the steps of run and of the callbacks that do not wait for the operation
DeadlineStep(t) ==
    \/ RunInvoke(t)
    \/ RunTimeout(t)
    \/ RunCount(t)
    \/ RunHandle(t)

DeadlineNext ==
    \/ \E t \in Procs : RunStart(t)
    \/ \E t \in Procs : DeadlineStep(t)
    \/ \E t \in Procs : RunOperationDone(t)
    \/ \E t \in Threads : TripStep(t)
    \/ \E k \in TimerIds : ResetterFire(k)

DeadlineSpec ==
    /\ Init
    /\ [][DeadlineNext]_vars
    /\ \A t \in Procs : WF_vars(DeadlineStep(t))
    /\ \A t \in Threads : WF_vars(TripStep(t))
    /\ \A k \in TimerIds : WF_vars(ResetterFire(k))

(***************************************************************************)
(* The same callers when the context they give to Run can be done: its     *)
(* deadline passes before the call, or the caller cancels it during the    *)
(* call.  The context of the deadline invoker is derived from the          *)
(* caller's, so its Done channel is closed as soon as the caller's is.     *)
(***************************************************************************)
\* ctx.Err() of a context that was cancelled, and of one past its deadline
Canceled == "context canceled"
DeadlineExceeded == "context deadline exceeded"

\* the deadline of the caller's context passes before the caller calls Run
Expire(t) ==
    /\ t \in Procs
    /\ pc[t] = "idle"
    /\ ctx[t] = NoError
    /\ ctx' = [ctx EXCEPT ![t] = DeadlineExceeded]
    /\ UNCHANGED <<breakerVars, counter, pc, runVars, tripVars, changes,
                   calls, constructionVars, lockVars, stateChangeHandlers,
                   threshold, concurrentVars>>

\* the caller cancels its context while its Run is in run
Cancel(t) ==
    /\ t \in Procs
    /\ pc[t] \in {"run", "select"}
    /\ ctx[t] = NoError
    /\ ctx' = [ctx EXCEPT ![t] = Canceled]
    /\ UNCHANGED <<breakerVars, counter, pc, runVars, tripVars, changes,
                   calls, constructionVars, lockVars, stateChangeHandlers,
                   threshold, concurrentVars>>

\* the caller takes a new context for its next call
Renew(t) ==
    /\ t \in Procs
    /\ pc[t] = "idle"
    /\ ctx[t] # NoError
    /\ ctx' = [ctx EXCEPT ![t] = NoError]
    /\ UNCHANGED <<breakerVars, counter, pc, runVars, tripVars, changes,
                   calls, constructionVars, lockVars, stateChangeHandlers,
                   threshold, concurrentVars>>

\* Run with a context that was not cancelled before the call
RunGiven(t) ==
    /\ ctx[t] # Canceled
    /\ RunStart(t)

CancelNext ==
    \/ \E t \in Procs : RunGiven(t)
    \/ \E t \in Procs : DeadlineStep(t)
    \/ \E t \in Procs : RunOperationDone(t)
    \/ \E t \in Procs : Expire(t)
    \/ \E t \in Procs : Cancel(t)
    \/ \E t \in Procs : Renew(t)
    \/ \E t \in Threads : TripStep(t)
    \/ \E k \in TimerIds : ResetterFire(k)

CancelSpec == Init /\ [][CancelNext]_vars

(***************************************************************************)
(* The TimeBucketCounter on its own, with one bucket more than the         *)
(* breaker's: its methods are called in any order, each of them under the  *)
(* counter's lock, and a timer that fired runs drop when it gets the lock, *)
(* so that an Increment or a Reset can come between the two.               *)
(***************************************************************************)
CounterCapacity == Capacity + 1

\* the metrics that are incremented
CounterMetrics == {metricSuccess, metricFailure}

\* the timers of the counter that are pending
PendingTasks(c) == c.tasks + (IF c.timer = "pending" THEN 1 ELSE 0)

\* NewTimeBucketCounter(CounterCapacity, duration)
CounterInit == InitWith(CounterCapacity)

\* c.Increment(metric)
Increment(metric) ==
    /\ counter.stats[metric] < MaxCount
    /\ counter' = CounterIncrement(counter, metric)
    /\ UNCHANGED <<breakerVars, pc, runVars, tripVars, changes, calls,
                   givenVars, concurrentVars>>

\* c.Reset()
Reset ==
    /\ \/ counter.timer = "pending"
       \/ PendingTasks(counter) + counter.drops < MaxTasks
    /\ counter' = CounterReset(counter)
    /\ UNCHANGED <<breakerVars, pc, runVars, tripVars, changes, calls,
                   givenVars, concurrentVars>>

\* the timer c.timer points to fires
Fire ==
    /\ counter.timer = "pending"
    /\ counter' = CounterFire(counter)
    /\ UNCHANGED <<breakerVars, pc, runVars, tripVars, changes, calls,
                   givenVars, concurrentVars>>

\* a pending timer that c.timer does not point to fires
FireTask ==
    /\ counter.tasks > 0
    /\ counter' = CounterFireTask(counter)
    /\ UNCHANGED <<breakerVars, pc, runVars, tripVars, changes, calls,
                   givenVars, concurrentVars>>

\* the drop of a timer that fired takes the lock and runs
Rotate ==
    /\ counter.drops > 0
    /\ counter' = CounterDrop(counter)
    /\ UNCHANGED <<breakerVars, pc, runVars, tripVars, changes, calls,
                   givenVars, concurrentVars>>

CounterNext ==
    \/ \E metric \in CounterMetrics : Increment(metric)
    \/ Reset
    \/ Fire
    \/ FireTask
    \/ Rotate

CounterSpec == CounterInit /\ [][CounterNext]_vars

(***************************************************************************)
(* The TimeBucketCounter with its methods taken statement by statement:    *)
(* each of them takes c.mutex, Stats for reading, and runs its statements  *)
(* one at a time, so that what the lock keeps apart is seen.  One Stats,   *)
(* one Increment, one drop and one Reset are in progress at most: a second *)
(* writer would wait for the lock.                                         *)
(***************************************************************************)
\* the metrics that Shift.stats asks for, in its order
StatsMetrics == <<metricSuccess, metricFailure, metricTimeout, metricReject>>

\* a faulty RLock: it does not wait for the writer
RLockUnguarded(m) == TRUE

\* sync.RWMutex: whether RLock can be taken
CanRLock(m) == m.writer = "none"

\* sync.RWMutex: whether Lock can be taken
CanLock(m) == m.writer = "none" /\ m.readers = 0

\* c.mutex.Unlock() of a writer: a whole operation ended, and a Stats that is
\* in progress has one more point it may show
Unlock(o) ==
    /\ cmutex' = [cmutex EXCEPT !.writer = "none"]
    /\ cpc' = [cpc EXCEPT ![o] = Idle]
    /\ points' = IF cpc["Stats"] = Idle THEN points
                 ELSE points \cup {CounterStats(counter')}

\* what a statement of a method of the counter leaves alone
CounterOnly ==
    UNCHANGED <<breakerVars, pc, runVars, tripVars, changes, calls, ctx,
                constructionVars, stateChangeHandlers, threshold,
                concurrentVars>>

\* Stats: c.mutex.RLock() and stats := make(map[string]uint32)
StatsRLock ==
    /\ cpc["Stats"] = Idle
    /\ CanRLock(cmutex)
    /\ cmutex' = [cmutex EXCEPT !.readers = @ + 1]
    /\ cpc' = [cpc EXCEPT !["Stats"] = [at |-> "read", metrics |-> {}]]
    /\ snapshot' = EmptyBucket
    /\ points' = IF cmutex.writer = "none" THEN {CounterStats(counter)}
                 ELSE {}
    /\ UNCHANGED counter
    /\ CounterOnly

\* Stats: stats[metric] = c.stats[metric], for the next metric
StatsRead ==
    /\ cpc["Stats"].at = "read"
    /\ Cardinality(cpc["Stats"].metrics) < Len(StatsMetrics)
    /\ LET metric == StatsMetrics[Cardinality(cpc["Stats"].metrics) + 1] IN
       /\ snapshot' = [snapshot EXCEPT ![metric] = counter.stats[metric]]
       /\ cpc' = [cpc EXCEPT !["Stats"].metrics = @ \cup {metric}]
    /\ UNCHANGED <<counter, cmutex, points>>
    /\ CounterOnly

\* Stats: return stats, and the deferred c.mutex.RUnlock()
StatsReturn ==
    /\ cpc["Stats"].at = "read"
    /\ Cardinality(cpc["Stats"].metrics) = Len(StatsMetrics)
    /\ cmutex' = [cmutex EXCEPT !.readers = @ - 1]
    /\ cpc' = [cpc EXCEPT !["Stats"] = Idle]
    /\ snapshot' = EmptyBucket
    /\ points' = {}
    /\ UNCHANGED counter
    /\ CounterOnly

\* Increment: c.mutex.Lock()
IncrementLock(metric) ==
    /\ cpc["Increment"] = Idle
    /\ CanLock(cmutex)
    /\ counter.stats[metric] < MaxCount
    /\ cmutex' = [cmutex EXCEPT !.writer = "Increment"]
    /\ cpc' = [cpc EXCEPT !["Increment"] =
                  [at |-> "stats", metrics |-> {metric}]]
    /\ UNCHANGED <<counter, snapshot, points>>
    /\ CounterOnly

\* Increment: c.stats[metric]++
IncrementStats ==
    /\ cpc["Increment"].at = "stats"
    /\ LET metric == CHOOSE m \in cpc["Increment"].metrics : TRUE IN
       counter' = [counter EXCEPT !.stats[metric] = @ + 1]
    /\ cpc' = [cpc EXCEPT !["Increment"].at = "bucket"]
    /\ UNCHANGED <<cmutex, snapshot, points>>
    /\ CounterOnly

\* Increment: c.buckets[len(c.buckets)-1][metric]++, and the deferred Unlock
IncrementBucket ==
    /\ cpc["Increment"].at = "bucket"
    /\ LET metric == CHOOSE m \in cpc["Increment"].metrics : TRUE IN
       counter' = [counter EXCEPT
                       !.buckets[Len(counter.buckets)][metric] = @ + 1]
    /\ Unlock("Increment")
    /\ UNCHANGED snapshot
    /\ CounterOnly

\* drop of a timer that fired: c.mutex.Lock() and
\* c.timer = time.AfterFunc(c.duration, c.drop); the range over c.stats
\* meets the metrics that were incremented, in any order
DropLock ==
    /\ counter.drops > 0
    /\ cpc["drop"] = Idle
    /\ CanLock(cmutex)
    /\ cmutex' = [cmutex EXCEPT !.writer = "drop"]
    /\ counter' = [counter EXCEPT
                       !.timer = "pending",
                       !.tasks = IF counter.timer = "pending" THEN @ + 1
                                 ELSE @,
                       !.drops = @ - 1]
    /\ cpc' = [cpc EXCEPT !["drop"] =
                  [at |-> "subtract",
                   metrics |-> {m \in Metrics : counter.stats[m] # 0}]]
    /\ UNCHANGED <<snapshot, points>>
    /\ CounterOnly

\* drop: c.stats[metric] -= c.buckets[0][metric]
DropSubtract(metric) ==
    /\ cpc["drop"].at = "subtract"
    /\ metric \in cpc["drop"].metrics
    /\ counter' = [counter EXCEPT
                       !.stats[metric] = @ - counter.buckets[1][metric]]
    /\ cpc' = [cpc EXCEPT !["drop"].metrics = @ \ {metric}]
    /\ UNCHANGED <<cmutex, snapshot, points>>
    /\ CounterOnly

\* drop: the buckets move left, the last one is made anew, and the deferred
\* Unlock
DropShift ==
    /\ cpc["drop"].at = "subtract"
    /\ cpc["drop"].metrics = {}
    /\ LET n == Len(counter.buckets) IN
       counter' = [counter EXCEPT
                       !.buckets = [i \in 1..n |->
                                       IF i < n THEN counter.buckets[i + 1]
                                       ELSE EmptyBucket]]
    /\ Unlock("drop")
    /\ UNCHANGED snapshot
    /\ CounterOnly

\* Reset: c.mutex.Lock(); the timer may fire before resetTimer stops it, so
\* that this Reset may leave one timer more
ResetLock ==
    /\ cpc["Reset"] = Idle
    /\ CanLock(cmutex)
    /\ PendingTasks(counter) + counter.drops < MaxTasks
    /\ cmutex' = [cmutex EXCEPT !.writer = "Reset"]
    /\ cpc' = [cpc EXCEPT !["Reset"] = [at |-> "stats", metrics |-> {}]]
    /\ UNCHANGED <<counter, snapshot, points>>
    /\ CounterOnly

\* Reset: c.resetStats()
ResetStats ==
    /\ cpc["Reset"].at = "stats"
    /\ counter' = [counter EXCEPT !.stats = EmptyBucket]
    /\ cpc' = [cpc EXCEPT !["Reset"].at = "buckets"]
    /\ UNCHANGED <<cmutex, snapshot, points>>
    /\ CounterOnly

\* Reset: c.resetBuckets()
ResetBuckets ==
    /\ cpc["Reset"].at = "buckets"
    /\ counter' = [counter EXCEPT
                       !.buckets = [i \in 1..Len(counter.buckets) |->
                                       EmptyBucket]]
    /\ cpc' = [cpc EXCEPT !["Reset"].at = "timer"]
    /\ UNCHANGED <<cmutex, snapshot, points>>
    /\ CounterOnly

\* Reset: c.resetTimer(), and the deferred Unlock
ResetTimer ==
    /\ cpc["Reset"].at = "timer"
    /\ counter' = CounterResetTimer(counter)
    /\ Unlock("Reset")
    /\ UNCHANGED snapshot
    /\ CounterOnly

LockNext ==
    \/ StatsRLock
    \/ StatsRead
    \/ StatsReturn
    \/ \E metric \in CounterMetrics : IncrementLock(metric)
    \/ IncrementStats
    \/ IncrementBucket
    \/ DropLock
    \/ \E metric \in Metrics : DropSubtract(metric)
    \/ DropShift
    \/ ResetLock
    \/ ResetStats
    \/ ResetBuckets
    \/ ResetTimer
    \/ Fire
    \/ FireTask

LockSpec == CounterInit /\ [][LockNext]_vars

(***************************************************************************)
(* New as a function of its options: the options are any list of up to     *)
(* MaxOptions of the options below, and New is applied to it once.         *)
(***************************************************************************)
\* the handlers a user gives to WithFailureHandlers and WithSuccessHandlers
UserFailureHandlers == {<<"onFailure1">>, <<"onFailure2", "onFailure3">>}

UserSuccessHandlers == {<<"onSuccess1">>, <<"onSuccess2", "onSuccess3">>}

Options ==
    {WithInitialState(st) : st \in States}
      \cup {WithFailureHandlers(st, hs) :
               st \in {StateClose, StateHalfOpen}, hs \in UserFailureHandlers}
      \cup {WithSuccessHandlers(st, hs) :
               st \in {StateClose, StateHalfOpen}, hs \in UserSuccessHandlers}
      \cup {WithFailureHandlers(StateClose, <<"nil">>)}
      \cup {WithOpener(st) : st \in {StateClose, StateHalfOpen, StateOpen}}
      \cup {WithCloser}

OptionLists == UNION {[1..n -> Options] : n \in 0..MaxOptions}

\* New has returned
Constructed == newErr # NoError \/ failureHandlers[StateClose] # <<>>

\* the state before New is called with some options
NewInit ==
    /\ state = NewShift.state
    /\ NoCall(Capacity)
    /\ opts \in OptionLists
    /\ newErr = NoError
    /\ failureHandlers = NewShift.failureHandlers
    /\ successHandlers = NewShift.successHandlers
    /\ stateChangeHandlers = <<>>
    /\ threshold = 0

\* New(name, opts...): on an error there is no breaker
NewCall ==
    /\ ~Constructed
    /\ LET s == New(opts) IN
       /\ newErr' = s.err
       /\ IF s.err = NoError
          THEN /\ state' = s.state
               /\ failureHandlers' = s.failureHandlers
               /\ successHandlers' = s.successHandlers
          ELSE UNCHANGED <<state, failureHandlers, successHandlers>>
    /\ opts' = <<>>
    /\ UNCHANGED <<mutex, counter, resetTimer, timers, resetter, pc, runVars,
                   tripVars, changes, calls, ctx, lockVars,
                   stateChangeHandlers, threshold, concurrentVars>>

NewNext == NewCall

NewSpec == NewInit /\ [][NewNext]_vars

(***************************************************************************)
(* The auto-trip handlers as functions of the Stats value and of their     *)
(* thresholds: a call is in its callbacks, the window holds any counts of  *)
(* a grid or of a named case, and the handler of the state is applied with *)
(* any of the thresholds.                                                  *)
(***************************************************************************)
\* thresholds <<minSuccessRatio in half-percents, minRequests>>: those of
\* the model, (98.5, 100), (98.0, 100) and (52.5, 40)
HandlerThresholds ==
    {<<2 * OptMinSuccessRatio, OptMinRequests>>, <<197, 100>>, <<196, 100>>,
     <<105, 40>>}

\* counts <<success, failure, reject>>
HandlerCounts ==
    ((0..MaxCount) \X (0..MaxCount) \X (0..MaxCount))
        \cup {<<984, 16, 0>>, <<95, 2, 1>>, <<998, 2, 0>>, <<98, 2, 0>>,
               <<97, 3, 0>>, <<98, 2, 1>>, <<21, 19, 0>>, <<22, 18, 0>>}

\* a counter whose current bucket holds the given counts
CounterOf(c) ==
    LET b == [m \in Metrics |->
                CASE m = metricSuccess -> c[1]
                  [] m = metricFailure -> c[2]
                  [] m = metricReject -> c[3]
                  [] OTHER -> 0]
    IN [NewTimeBucketCounter(Capacity) EXCEPT
           !.stats = b,
           !.buckets = [i \in 1..Capacity |->
                           IF i = Capacity THEN b ELSE EmptyBucket]]

HandlerInit ==
    /\ state \in {StateClose, StateHalfOpen}
    /\ failureHandlers = [st \in States |-> FailureHandlers(st)]
    /\ successHandlers = [st \in States |-> SuccessHandlers(st)]
    /\ mutex = 0
    /\ \E c \in HandlerCounts : counter = CounterOf(c)
    /\ resetTimer = 0
    /\ timers = <<"pending">>
    /\ resetter = 1
    /\ pc = [t \in Threads |->
                IF t = 1 THEN "handle" ELSE IF t \in Procs THEN "idle"
                ELSE "timer"]
    /\ ctxState = [t \in Threads |-> IF t = 1 THEN state ELSE StateUnknown]
    /\ \E e \in {NoError, OperationError} :
          /\ Len(HandlersOf(e, state)) > 0
          /\ err = [t \in Threads |-> IF t = 1 THEN e ELSE NoError]
    /\ opRan = [t \in Threads |-> t = 1]
    /\ checked = [t \in Threads |-> 0]
    /\ deferred = [t \in Threads |-> <<>>]
    /\ target = [t \in Threads |-> StateUnknown]
    /\ trigger = [t \in Threads |-> "none"]
    /\ from = [t \in Threads |-> StateUnknown]
    /\ tripErr = [t \in Threads |-> NoError]
    /\ changes = <<>>
    /\ calls = 1
    /\ ctx = [t \in Threads |-> NoError]
    /\ opts = <<>>
    /\ newErr = NoError
    /\ stateChangeHandlers = <<>>
    /\ threshold = 0
    /\ tripStats = [t \in Threads |-> newStats(EmptyBucket)]
    /\ NoCounterCall
    /\ current = 0
    /\ orphans = 0

HandlerNext ==
    \/ \E t \in Procs : \E o \in HandlerThresholds :
          RunHandleWith(t, o[1], o[2])
    \/ \E t \in Threads : TripStep(t)
    \/ \E k \in TimerIds : ResetterFire(k)

HandlerSpec == HandlerInit /\ [][HandlerNext]_vars

(***************************************************************************)
(* The properties.                                                         *)
(***************************************************************************)
\* C1: a Run call whose state snapshot is Open never executes the operation.
\* When run calls its invoker, the reject count goes up by one and the error
\* is IsOnOpenState; runWithCallbacks then counts a failure and Run returns
\* with that error.
C1_OpenSnapshotRejects ==
    [][\A t \in Procs :
         /\ ctxState[t] = StateOpen => ~opRan[t] /\ pc[t] # "select"
         /\ ctxState'[t] = StateOpen => ~opRan'[t] /\ pc'[t] # "select"
         /\ ctxState[t] = StateOpen /\ pc[t] = "run" /\ RunInvoke(t) =>
              /\ CounterStats(counter')[metricReject]
                   = CounterStats(counter)[metricReject] + 1
              /\ CounterStats(counter')[metricFailure]
                   = CounterStats(counter)[metricFailure]
              /\ err'[t] = IsOnOpenStateError
              /\ pc'[t] = "count"
         /\ ctxState[t] = StateOpen /\ err[t] = IsOnOpenStateError
              /\ pc[t] = "count" /\ RunCount(t) =>
              /\ CounterStats(counter')[metricFailure]
                   = CounterStats(counter)[metricFailure] + 1
              /\ CounterStats(counter')[metricSuccess]
                   = CounterStats(counter)[metricSuccess]
              /\ err'[t] = IsOnOpenStateError
              /\ pc'[t] = "idle"
      ]_vars

\* a Run call of snapshot Open has returned IsOnOpenState, and its reject and
\* its failure are in the window
C1_Witness ==
    \E t \in Procs :
        /\ pc[t] = "idle"
        /\ err[t] = IsOnOpenStateError
        /\ state = StateOpen
        /\ stats.RejectCount = 1
        /\ stats.FailureCount = 1

\* C2: the snapshot of a Run call does not change while the call is in
\* flight, whatever state the breaker is tripped to meanwhile.  A call of
\* snapshot Closed is dispatched to the deadline invoker, which starts the
\* operation; its success returns at once, the success chain of Closed being
\* empty; its failure runs the chain of Closed, whose opener trips to Open
\* exactly when the thresholds of the closed state say so.
C2_SnapshotStable ==
    [][\A t \in Procs : ctxState[t] = StateClose =>
         /\ pc'[t] \in {"run", "select", "count", "handle"}
              => ctxState'[t] = StateClose
         /\ pc[t] = "run" /\ RunInvoke(t) =>
              /\ pc'[t] = "select"
              /\ opRan'[t]
              /\ counter' = counter
         /\ pc[t] = "select" /\ RunOperationDone(t) =>
              /\ pc'[t] = "count"
              /\ counter' = counter
         /\ err[t] = NoError /\ pc[t] = "count" /\ RunCount(t) =>
              /\ pc'[t] = "idle"
              /\ counter' = CounterIncrement(counter, metricSuccess)
         /\ err[t] # NoError /\ pc[t] = "count" /\ RunCount(t) =>
              /\ pc'[t] = "handle"
              /\ counter' = CounterIncrement(counter, metricFailure)
         /\ pc[t] = "handle" /\ RunHandle(t) =>
              IF OpenerTrips(stats, 2 * OptMinSuccessRatio, OptMinRequests)
              THEN pc'[t] = "lock" /\ target'[t] = StateOpen
                   /\ trigger'[t] = "opener"
              ELSE pc'[t] = "idle"
      ]_vars

\* a call that took its snapshot in Closed has run the operation and is in
\* the failure chain of Closed while the breaker is Open
C2_Witness ==
    \E t \in Procs :
        /\ ctxState[t] = StateClose
        /\ state = StateOpen
        /\ opRan[t]
        /\ pc[t] = "handle"
        /\ err[t] = OperationError

\* C3: a transition from Closed to HalfOpen is made by an external
\* Trip(StateHalfOpen) only; the Trip of the resetter never moves a breaker
\* that is Closed to HalfOpen.
C3_ClosedToHalfOpenOnlyExternal ==
    [][\A t \in Threads :
         TripSet(t) /\ state = StateClose /\ state' = StateHalfOpen
            => trigger[t] = "external"
      ]_vars

\* C4: a transition from Open to Closed is made by an external
\* Trip(StateClose) only; the Trip of the half-open closer never closes a
\* breaker that is Open.
C4_OpenToClosedOnlyExternal ==
    [][\A t \in Threads :
         TripSet(t) /\ state = StateOpen /\ state' = StateClose
            => trigger[t] = "external"
      ]_vars

\* C5: when a transition commits, no timer that an earlier open armed is
\* still pending; the only timer of an open that may be pending is the one
\* the transition itself armed.
C5_TransitionStopsResetter ==
    [][\A t \in Threads : TripSet(t) =>
         \A k \in 2..Len(timers') :
            timers'[k] = "pending" => target[t] = StateOpen /\ k = resetter'
      ]_vars

\* C6: at most one resetter timer is pending.
C6_OneResetterArmed ==
    Cardinality({k \in 1..Len(timers) : timers[k] = "pending"}) <= 1

\* the breaker was opened twice: the second open stopped the pending timer of
\* the first and armed its own
C6_Witness ==
    \E j, k \in 2..Len(timers) :
        /\ j < k
        /\ timers[j] = "stopped"
        /\ timers[k] = "pending"
        /\ state = StateOpen

\* C7: after a transition to Open the breaker does not stay Open: the timer
\* that open armed fires and its Trip moves the breaker to HalfOpen, unless a
\* Trip of a caller moved it first.
C7_OpenLeadsToHalfOpen ==
    (\E t \in Threads : pc[t] = "reset" /\ target[t] = StateOpen)
        ~> (state = StateHalfOpen \/ state = StateClose)

\* the Trip of the resetter has moved the breaker from Open to HalfOpen
C7_Witness ==
    \E t \in Threads \ Procs :
        /\ pc[t] = "notify"
        /\ trigger[t] = "resetter"
        /\ from[t] = StateOpen
        /\ state = StateHalfOpen

\* C8: a Trip to the state the breaker is in returns
\* IsAlreadyInDesiredStateError and changes nothing: not the state, not the
\* counter, not the reset timer, not the resetter, and no state change
\* handler runs.
C8_TripToCurrentState ==
    [][\A t \in Threads :
         /\ pc[t] \in {"idle", "lock"}
         /\ target'[t] = state
         /\ TripLock(t) \/ TripCall(t, state)
         =>
              /\ tripErr'[t] = IsAlreadyInDesiredStateError
              /\ pc'[t] = Returned(t)
              /\ UNCHANGED <<state, counter, resetTimer, timers, resetter,
                             mutex, changes>>
      ]_vars

\* a Trip(StateOpen) on an Open breaker has returned the error: the counts
\* of the window and the pending resetter are still there
C8_Witness ==
    \E t \in Procs :
        /\ pc[t] = "idle"
        /\ tripErr[t] = IsAlreadyInDesiredStateError
        /\ target[t] = StateOpen
        /\ state = StateOpen
        /\ stats.FailureCount = 1
        /\ timers[resetter] = "pending"
        /\ changes = <<>>

\* C9: a Trip to Unknown returns UnknownStateError from every state, and
\* changes neither the state nor the counter nor the resetter, and no state
\* change handler runs.
C9_TripToUnknown ==
    [][\A t \in Procs :
         TripCall(t, StateUnknown) =>
              /\ tripErr'[t] = UnknownStateError
              /\ UNCHANGED <<state, counter, resetTimer, timers, resetter,
                             changes>>
      ]_vars

\* C10: trips are serialised: at most one goroutine is between the test of
\* the state and the end of close, halfOpen or open; and while the goroutine
\* that moved the breaker to a state has not returned, a Trip of another one
\* to that state returns IsAlreadyInDesiredStateError and changes nothing.
C10_TripsSerialised ==
    [][/\ \A p \in Threads : pc'[p] \in {"set", "reset"} =>
            \A q \in Threads \ {p} : pc'[q] \notin {"set", "reset"}
       /\ \A q \in Threads :
            /\ pc[q] \in {"idle", "lock"}
            /\ target'[q] = state
            /\ \E p \in Threads \ {q} :
                  pc[p] \in {"reset", "notify"} /\ target[p] = state
            /\ TripLock(q) \/ TripCall(q, state)
            => /\ tripErr'[q] = IsAlreadyInDesiredStateError
               /\ pc'[q] = Returned(q)
               /\ UNCHANGED <<state, counter, resetTimer, timers, resetter,
                              changes>>
      ]_vars

\* two callers tripped to the same state: one made the transition and is
\* about to run the state change handlers, the other got the error
C10_Witness ==
    \E p, q \in Procs :
        /\ p # q
        /\ pc[p] = "notify"
        /\ from[p] # target[p]
        /\ state = target[p]
        /\ target[q] = target[p]
        /\ pc[q] = Returned(q)
        /\ tripErr[q] = IsAlreadyInDesiredStateError

\* C11: as long as the counter was neither reset nor rotated, once every Run
\* call has returned, the success, failure and reject counts add up to the
\* number of Run calls.
C11_CountsAddUpToCalls ==
    /\ changes = <<>>
    /\ \A t \in Threads : pc[t] \in {"idle", "timer"}
    => stats.SuccessCount + stats.FailureCount + stats.RejectCount = calls

\* C11, amended: as long as the counter was neither reset nor rotated, the
\* success and failure counts add up to the number of Run calls that have
\* been counted, which are all of them once every call has returned; a
\* rejected call is in the reject count and in the failure count.
C11_SuccessAndFailureAddUpToCalls ==
    /\ changes = <<>>
    /\ \A t \in Threads : pc[t] \notin {"notify", "done"}
    => stats.SuccessCount + stats.FailureCount
         = calls - Cardinality({t \in Procs :
                       pc[t] \in {"run", "select", "count", "panic"}})

\* three Run calls have returned, one of them rejected, and the counter was
\* never reset
C11_Witness ==
    /\ changes = <<>>
    /\ \A t \in Threads : pc[t] \in {"idle", "timer"}
    /\ calls = 3
    /\ stats.RejectCount = 1
    /\ stats.SuccessCount = 1
    /\ stats.FailureCount = 2

\* C12: a Run call that a restrictor rejects causes no transition: its
\* handlers never move the breaker to another state.
C12_RejectedCallKeepsState ==
    [][\A t \in Procs :
         err[t] = RestrictorError /\ pc[t] = "set" /\ TripSet(t)
            => state' = state
      ]_vars

\* C13: when a restrictor's Check returns false, with or without an error,
\* Run does not execute the operation, increments reject, and its error is
\* not nil; the call is then counted as a failure, not as a success, and
\* goes through the failure chain.
C13_RejectionIsFailure ==
    [][\A t \in Procs :
         /\ pc[t] = "run" /\ RunReject(t) =>
              /\ ~opRan'[t]
              /\ counter' = CounterIncrement(counter, metricReject)
              /\ err'[t] # NoError
         /\ pc[t] = "count" /\ err[t] \in {NoError, RestrictorError}
              /\ RunCount(t) =>
              /\ counter' = CounterIncrement(counter, metricFailure)
              /\ Len(FailureHandlers(ctxState[t])) > 0 => pc'[t] = "handle"
      ]_vars

\* C14: when a restrictor's Check returns true together with an error, the
\* call is rejected: the operation is not executed, reject is incremented
\* and Run returns the error.
C14_ErroredCheckIsRejection ==
    [][\A t \in Procs :
         pc[t] = "run" /\ RunAdmit(t, RestrictorError) =>
              /\ ~opRan'[t]
              /\ counter' = CounterIncrement(counter, metricReject)
              /\ err'[t] = RestrictorError
      ]_vars

\* the restrictors 1..k, each once, the last first
LastCheckedFirst(d, k) ==
    /\ Len(d) = k
    /\ \A i \in 1..k : d[i] = k + 1 - i

\* C15: every restrictor whose Check run entered has its Defer called exactly
\* once, in the reverse of the declaration order, when run returns, whether
\* run returns by a rejection, by a result of the operation, by a timeout, by
\* the error of the open invoker or by a panic; the restrictors after the
\* one that rejected are neither checked nor deferred, and no Defer is
\* called while the operation is awaited.
C15_DefersInReverseOrder ==
    [][\A t \in Procs :
         /\ pc[t] = "run" /\ RunReject(t) =>
              /\ checked'[t] \in 1..NumRestrictors
              /\ LastCheckedFirst(deferred'[t], checked'[t])
         /\ pc[t] = "run" /\ pc'[t] = "select" =>
              /\ checked'[t] = NumRestrictors
              /\ deferred'[t] = <<>>
         /\ pc[t] = "run" /\ pc'[t] \in {"count", "panic"} /\ RunInvoke(t) =>
              /\ checked'[t] = NumRestrictors
              /\ LastCheckedFirst(deferred'[t], NumRestrictors)
         /\ pc[t] = "select" /\ pc'[t] = "count" =>
              /\ checked'[t] = NumRestrictors
              /\ LastCheckedFirst(deferred'[t], NumRestrictors)
      ]_vars

\* one run was rejected by its first restrictor and deferred that one only,
\* another timed out and deferred both, the second first
C15_Witness ==
    \E t, u \in Procs :
        /\ pc[t] = "count"
        /\ checked[t] = 1
        /\ deferred[t] = <<1>>
        /\ pc[u] = "count"
        /\ err[u] = InvocationTimeoutError
        /\ deferred[u] = <<2, 1>>

\* the opener's condition as the arithmetic of the integers and of the
\* rationals has it: requests >= minRequests and
\* success / requests * 100 < minSuccessRatio
BelowRatio(c, minSuccessRatio2, minRequests) ==
    LET requests == c.SuccessCount + c.FailureCount - c.RejectCount
    IN /\ requests >= minRequests
       /\ 200 * c.SuccessCount < minSuccessRatio2 * requests

\* C16: the opener, run on a failure with a Stats value and requests =
\* success + failure - reject, calls Trip(StateOpen) if and only if requests
\* >= minRequests and success / requests * 100 < minSuccessRatio; in every
\* other case the call returns and the state is as it was.
C16_OpenerTripsIffBelowRatio ==
    [][\A t \in Procs : \A o \in HandlerThresholds :
         pc[t] = "handle" /\ err[t] # NoError /\ RunHandleWith(t, o[1], o[2])
         => IF BelowRatio(stats, o[1], o[2])
            THEN pc'[t] = "lock" /\ target'[t] = StateOpen
            ELSE pc'[t] = "idle" /\ state' = state
      ]_vars

\* the closer's condition as the arithmetic of the integers and of the
\* rationals has it: requests >= minRequests and
\* success / requests * 100 >= minSuccessRatio
AtLeastRatio(c, minSuccessRatio2, minRequests) ==
    LET requests == c.SuccessCount + c.FailureCount - c.RejectCount
    IN /\ requests >= minRequests
       /\ 200 * c.SuccessCount >= minSuccessRatio2 * requests

\* C17: the closer, run on a success in HalfOpen with a Stats value and
\* requests = success + failure - reject, calls Trip(StateClose) if and only
\* if requests >= minRequests and success / requests * 100 >=
\* minSuccessRatio; otherwise the call returns and the state stays HalfOpen.
C17_CloserTripsIffAtLeastRatio ==
    [][\A t \in Procs : \A o \in HandlerThresholds :
         pc[t] = "handle" /\ err[t] = NoError /\ ctxState[t] = StateHalfOpen
         /\ RunHandleWith(t, o[1], o[2])
         => IF AtLeastRatio(stats, o[1], o[2])
            THEN pc'[t] = "lock" /\ target'[t] = StateClose
            ELSE pc'[t] = "idle" /\ state' = state
      ]_vars

\* the window holds a burst: minRequests calls at least, none rejected, and
\* more than (100 - minSuccessRatio) percent of them failures
BurstInWindow ==
    LET n == stats.SuccessCount + stats.FailureCount
    IN /\ stats.RejectCount = 0
       /\ n >= BurstMinRequests
       /\ 100 * stats.FailureCount > (100 - BurstMinSuccessRatio) * n

\* C18: in Closed, when the calls of a burst have all returned, the breaker
\* is no longer Closed when the next call is admitted, in whatever order the
\* successes and the failures of the burst came.
C18_BurstOpensBeforeNextCall ==
    [][\A t \in Procs :
         /\ \A u \in Threads : pc[u] \in {"idle", "timer", "done"}
         /\ BurstInWindow
         /\ RunOnly(t)
         => state # StateClose
      ]_vars

Count(c, metric) == CounterStats(c)[metric]

\* C20: when the deadline of a call of snapshot Closed or HalfOpen expires
\* before the operation completes, the timeout count goes up by one and
\* nothing else is counted at that step; runWithCallbacks then counts one
\* failure and no success, and runs the failure chain of the snapshot state,
\* whose opener decides on the thresholds; Run returns the InvocationTimeout
\* error, and no later step of the call counts anything: the result of the
\* operation is never received.
C20_TimeoutCountedOnce ==
    [][\A t \in Procs :
         /\ pc[t] = "select" /\ RunTimeout(t) =>
              /\ ctxState[t] \in {StateClose, StateHalfOpen}
              /\ counter' = CounterIncrement(counter, metricTimeout)
              /\ Count(counter', metricTimeout)
                   = Count(counter, metricTimeout) + 1
              /\ Count(counter', metricFailure) = Count(counter, metricFailure)
              /\ Count(counter', metricSuccess) = Count(counter, metricSuccess)
              /\ err'[t] = InvocationTimeoutError
              /\ pc'[t] = "count"
              /\ ctxState'[t] = ctxState[t]
         /\ pc[t] = "count" /\ err[t] = InvocationTimeoutError /\ RunCount(t) =>
              /\ Count(counter', metricFailure)
                   = Count(counter, metricFailure) + 1
              /\ Count(counter', metricTimeout) = Count(counter, metricTimeout)
              /\ Count(counter', metricSuccess) = Count(counter, metricSuccess)
              /\ err'[t] = InvocationTimeoutError
              /\ pc'[t] = "handle"
              /\ ctxState'[t] = ctxState[t]
         /\ pc[t] = "handle" /\ err[t] = InvocationTimeoutError /\ RunHandle(t) =>
              /\ HandlersOf(err[t], ctxState[t]) = FailureHandlers(ctxState[t])
              /\ counter' = counter
              /\ err'[t] = InvocationTimeoutError
              /\ IF OpenerTrips(stats, 2 * OptMinSuccessRatio, OptMinRequests)
                 THEN pc'[t] = "lock" /\ target'[t] = StateOpen
                 ELSE pc'[t] = "idle"
         /\ err[t] = InvocationTimeoutError /\ trigger[t] = "opener"
              /\ pc[t] \in {"lock", "set", "reset", "notify"} /\ TripStep(t) =>
              /\ err'[t] = InvocationTimeoutError
              /\ \/ counter' = counter
                 \/ counter' = CounterReset(counter)
              /\ pc'[t] # "select"
      ]_vars

\* a call of snapshot Closed has timed out while its operation was running
\* and is in the failure chain of Closed; its one timeout and its one failure
\* are the counts of the window
C20_Witness ==
    \E t \in Procs :
        /\ pc[t] = "handle"
        /\ err[t] = InvocationTimeoutError
        /\ ctxState[t] = StateClose
        /\ opRan[t]
        /\ stats.TimeoutCount = 1
        /\ stats.FailureCount = 1
        /\ stats.SuccessCount = 0
        /\ calls = 1

\* C21: every Run call whose state snapshot is Closed or HalfOpen returns,
\* with the outcome of the operation or with a timeout, also when the
\* operation never completes: the deadline of the invoker passes, the select
\* receives from ctx.Done(), and the callbacks and the Trip of a handler
\* return.  The caller does not wait for the operation any further.
C21_RunReturns ==
    \A t \in Procs :
        (ctxState[t] \in {StateClose, StateHalfOpen}) ~> (pc[t] = "idle")

\* a Run returned InvocationTimeout to a caller whose context is not done:
\* its operation did not complete before the deadline of the invoker
C21_Witness ==
    \E t \in Procs :
        /\ pc[t] = "idle"
        /\ err[t] = InvocationTimeoutError
        /\ ctxState[t] = StateUnknown
        /\ calls > 0

\* C22: when the caller cancels its own context during a Run, before the
\* deadline of the invoker, the outcome of the call is what the operation
\* returns: the select does not report a timeout, the error is nil or the
\* operation's, and the timeout metric stays as it is.
C22_CancelIsNotTimeout ==
    [][\A t \in Procs :
          /\ pc[t] = "select"
          /\ ctx[t] = Canceled
          /\ pc'[t] # "select"
          => /\ err'[t] \in {NoError, OperationError}
             /\ Count(counter', metricTimeout) = Count(counter, metricTimeout)
      ]_vars

\* C23: a Run that is entered with a context already past its deadline, on a
\* Closed or HalfOpen snapshot, always ends its select with a timeout: the
\* error is InvocationTimeout and the timeout metric goes up by one, however
\* quickly the operation completes.
C23_ExpiredContextTimesOut ==
    [][\A t \in Procs :
          /\ pc[t] = "select"
          /\ ctx[t] = DeadlineExceeded
          /\ pc'[t] # "select"
          => /\ err'[t] = InvocationTimeoutError
             /\ Count(counter', metricTimeout)
                  = Count(counter, metricTimeout) + 1
      ]_vars

C25_ResetIsIdempotent ==
    [][Reset =>
          /\ counter'.stats = EmptyBucket
          /\ \A i \in 1..Len(counter.buckets) :
                counter'.buckets[i] = EmptyBucket
          /\ Len(counter'.buckets) = Len(counter.buckets)
          /\ counter'.timer = "pending"
          /\ counter'.tasks = counter.tasks
          /\ CounterReset(counter') = counter'
      ]_vars

\* the counter after a Reset that came between a timer's firing and its drop
C25_Witness ==
    /\ counter.stats = EmptyBucket
    /\ \A i \in 1..Len(counter.buckets) : counter.buckets[i] = EmptyBucket
    /\ counter.timer = "pending"
    /\ counter.tasks = 0
    /\ counter.drops = 1

\* the sum of a metric over the first i buckets
RECURSIVE SumOfBuckets(_, _, _)
SumOfBuckets(buckets, m, i) ==
    IF i = 0 THEN 0 ELSE buckets[i][m] + SumOfBuckets(buckets, m, i - 1)

\* C29: in every reachable state of the counter, whatever the order of its
\* increments, rotations and resets, the window aggregate of each metric is
\* the sum of that metric over all buckets.
C29_AggregateIsSumOfBuckets ==
    \A m \in Metrics :
        counter.stats[m]
          = SumOfBuckets(counter.buckets, m, Len(counter.buckets))

\* increments before and after a rotation are in the window, in a counter
\* that was reset between the firing of a timer and its drop
C29_Witness ==
    /\ Len(counter.buckets) > 1
    /\ counter.tasks > 0
    /\ \E m \in CounterMetrics :
          /\ counter.buckets[1][m] > 0
          /\ counter.buckets[Len(counter.buckets)][m] > 0

\* C30: at any time at most one rotation timer of a counter is pending,
\* whatever the order of its resets and of the rotations that fired.
C30_OneRotationTaskPending == PendingTasks(counter) <= 1

\* C26: the state of a breaker that New returned is Closed, HalfOpen or
\* Open: New with a WithInitialState of another value returns an error and
\* no breaker.
C26_StateIsKnown == KnownState(state)

\* C27: a failure of a call whose state snapshot is HalfOpen is evaluated
\* with the thresholds given to WithOpener(StateHalfOpen, ...): its handler
\* calls Trip(StateOpen) exactly when the window has at least that
\* minRequests and a success ratio below that minSuccessRatio.
C27_HalfOpenFailureUsesHalfOpenOpener ==
    [][\A t \in Procs :
          /\ pc[t] = "handle"
          /\ err[t] # NoError
          /\ ctxState[t] = StateHalfOpen
          /\ RunHandle(t)
          => ((pc'[t] = "lock" /\ target'[t] = StateOpen)
                <=> OpenerTrips(stats, 2 * OptHalfOpenMinSuccessRatio,
                                OptHalfOpenMinRequests))
      ]_vars

\* the handlers that the options of the given name gave for a state, in the
\* order of the options from the i-th on
RECURSIVE UserHandlers(_, _, _, _)
UserHandlers(os, name, st, i) ==
    IF i > Len(os) THEN <<>>
    ELSE (IF os[i].name = name /\ os[i].state = st THEN os[i].handlers
          ELSE <<>>) \o UserHandlers(os, name, st, i + 1)

\* the chains of a breaker that New returned: a first handler, then the
\* user's handlers in the order of the options
ChainsAre(os, closeFirst, halfOpenFirst, successFirst) ==
    /\ failureHandlers'[StateClose]
         = <<closeFirst>> \o UserHandlers(os, "WithFailureHandlers",
                                          StateClose, 1)
    /\ failureHandlers'[StateHalfOpen]
         = <<halfOpenFirst>> \o UserHandlers(os, "WithFailureHandlers",
                                             StateHalfOpen, 1)
    /\ successHandlers'[StateHalfOpen]
         = <<successFirst>> \o UserHandlers(os, "WithSuccessHandlers",
                                            StateHalfOpen, 1)

\* C28: whatever the order of the options of New, the first failure handler
\* of Closed is the closed-state opener, the first failure handler of
\* HalfOpen the half-open opener and the first success handler of HalfOpen
\* the closer, and the user's handlers of each chain follow in the order in
\* which the options gave them.
C28_AutoTripHandlersFirst ==
    [][NewCall /\ newErr' = NoError
          => ChainsAre(opts, "closeOpener", "halfOpenOpener",
                       "halfOpenCloser")
      ]_vars

\* what New does: the closed-state opener is first in both failure chains
OpenerOfCloseFirst ==
    [][NewCall /\ newErr' = NoError
          => ChainsAre(opts, "closeOpener", "closeOpener", "halfOpenCloser")
      ]_vars

(***************************************************************************)
(* C31: the values that one Stats call returns for the metrics it was      *)
(* asked for are the aggregate at one point between whole Increment, drop  *)
(* and Reset operations: no half of a rotation or of a reset is seen.      *)
(***************************************************************************)
C31_StatsIsOnePoint == [][StatsReturn => snapshot \in points]_vars

\* Stats read every metric of a window that has counts while a rotation
\* waits for the lock
C31_Witness ==
    /\ cpc["Stats"].metrics = Metrics
    /\ snapshot[metricSuccess] > 0
    /\ snapshot[metricFailure] > 0
    /\ cmutex.readers = 1
    /\ counter.drops > 0

(***************************************************************************)
(* C32: a Trip that changes the state resets the counter exactly once, and *)
(* holds the breaker's write lock from the write of the state to the end   *)
(* of the reset; a Trip that fails, the breaker being in the desired state *)
(* or the desired state being unknown, does not reset the counter.         *)
(***************************************************************************)
\* the counter as Reset leaves it
IsReset(c) ==
    /\ c.stats = EmptyBucket
    /\ \A i \in 1..Len(c.buckets) : c.buckets[i] = EmptyBucket
    /\ c.timer = "pending"

C32_TransitionResetsOnce ==
    [][\A t \in Threads :
         \* the state is written under the lock, the reset being still to come
         /\ (pc[t] = "set" /\ pc'[t] # "set")
              => /\ mutex = t /\ mutex' = t
                 /\ state' = target[t]
                 /\ counter' = counter
                 /\ pc'[t] = "reset"
         \* the reset is done under the lock, and nothing but the handlers
         \* of the state change follows it
         /\ (pc[t] = "reset" /\ pc'[t] # "reset")
              => /\ mutex = t
                 /\ state' = state
                 /\ IsReset(counter')
                 /\ pc'[t] = "notify"
         /\ (pc[t] = "notify" /\ pc'[t] # "notify")
              => /\ counter' = counter
                 /\ pc'[t] = Returned(t)
         \* a Trip that fails leaves the counter and the state as they are
         /\ (pc[t] \in {"idle", "lock"} /\ tripErr'[t] # NoError
               /\ pc'[t] = Returned(t) /\ (pc[t] = "lock" \/ calls' # calls))
              => /\ counter' = counter
                 /\ state' = state
         \* nobody but the holder of the lock writes the state
         /\ (state' # state /\ mutex = t) => pc[t] = "set"
         /\ state' # state => mutex # 0
      ]_vars

\* a transition is about to discard the counts of the window, and a Trip of
\* another goroutine has failed
C32_Witness ==
    \E t, u \in Threads :
        /\ pc[t] = "reset"
        /\ mutex = t
        /\ counter.stats[metricFailure] > 0
        /\ tripErr[u] # NoError

(***************************************************************************)
(* The breaker that New made with WithStateChangeHandlers: a handler gets  *)
(* the (from, to, stats) of every transition.                              *)
(***************************************************************************)
NotifyInit ==
    /\ Built(Capacity)
    /\ stateChangeHandlers = <<"onStateChange">>
    /\ threshold = 0

NotifySpec == NotifyInit /\ [][AdmitNext]_vars

(***************************************************************************)
(* C33: the stats that the state change handlers of a transition get are   *)
(* the aggregate that the reset of the transition discards, whatever the   *)
(* other goroutines do in between.                                         *)
(***************************************************************************)
C33_HandlersGetDiscardedCounts ==
    [][\A t \in Threads :
         (pc[t] = "reset" /\ pc'[t] = "notify") => tripStats[t] = stats
      ]_vars

(***************************************************************************)
(* C34: the breaker's lock is held inside trip only, never while the       *)
(* restrictors are checked, the operation executes or a handler runs; so a *)
(* handler that calls Trip gets the lock in the end, and every call that   *)
(* reached its handlers returns.                                           *)
(***************************************************************************)
C34_HandlersRunUnlocked ==
    /\ [](\A t \in Threads : mutex = t => pc[t] \in {"set", "reset"})
    /\ \A t \in Threads :
          (pc[t] \in {"handle", "lock", "notify"}) ~> (pc[t] = Returned(t))

\* the Trip of an auto-trip handler waits for the lock that the Trip of
\* another goroutine holds
C34_Witness ==
    \E t, u \in Threads :
        /\ t # u
        /\ pc[t] = "lock"
        /\ trigger[t] \in {"opener", "closer"}
        /\ mutex = u

(***************************************************************************)
(* C35: when the select of the deadline invoker receives the operation's   *)
(* result, the operation having completed before the deadline, the invoker *)
(* returns the operation's error as it is, nil or not, and does not call   *)
(* the timeout callback: no metric changes before the call is counted.     *)
(***************************************************************************)
C35_CompletionReturnsResult ==
    [][\A t \in Procs :
          /\ pc[t] = "select"
          /\ pc'[t] # "select"
          /\ err'[t] # InvocationTimeoutError
          => /\ err'[t] \in {NoError, OperationError}
             /\ counter' = counter
             /\ pc'[t] = "count"
      ]_vars

\* the operations of two calls completed before the deadline, one with an
\* error and one without, and no timeout was counted
C35_Witness ==
    \E t, u \in Procs :
        /\ pc[t] = "count" /\ opRan[t] /\ err[t] = NoError
        /\ pc[u] = "count" /\ opRan[u] /\ err[u] = OperationError
        /\ Count(counter, metricTimeout) = 0

(***************************************************************************)
(* C36: the Trip of a scheduler that an earlier entry into Open armed      *)
(* fails when the breaker is in a later Open episode: the only scheduler   *)
(* whose Trip moves the breaker from Open to HalfOpen is the one that the  *)
(* last entry into Open armed.                                             *)
(***************************************************************************)
C36_StaleSchedulerFails ==
    [][\A k \in TimerIds :
          /\ state = StateOpen
          /\ pc[TimerThread(k)] = "lock"
          /\ pc'[TimerThread(k)] = "set"
          => k = resetter
      ]_vars

(***************************************************************************)
(* C37: the stats that an opener or a closer is given never have more      *)
(* rejects than successes and failures together, so that requests =        *)
(* success + failure - reject does not wrap around below zero, whatever    *)
(* rejected calls are under way.                                           *)
(***************************************************************************)
C37_RequestsNeverUnderflow ==
    [][\A t \in Procs :
          pc[t] = "handle" /\ RunHandle(t)
          => stats.RejectCount <= stats.SuccessCount + stats.FailureCount
      ]_vars

(***************************************************************************)
(* C38: once a transition has reset the counter, a call adds to the window *)
(* only when the state of its snapshot is the state the breaker is in: a   *)
(* call that took its snapshot before the transition adds no success,      *)
(* failure, timeout or reject to the window of the new state.              *)
(***************************************************************************)
C38_WindowCountsCurrentState ==
    [][\A t \in Procs :
          /\ mutex = 0
          /\ pc[t] \in {"run", "select", "count"}
          /\ pc'[t] # pc[t]
          /\ counter' # counter
          => CtxState(t) = state
      ]_vars

(***************************************************************************)
(* The breaker that New made with WithRestrictors of one                   *)
(* ConcurrentRunRestrictor, its callers calling Run only: the restrictor   *)
(* rejects a run when r.current is over the threshold, and an operation    *)
(* whose Run timed out ends when it will.                                  *)
(***************************************************************************)
\* the threshold NewConcurrentRunRestrictor was given
Threshold == 1

RestrictorInit ==
    /\ Built(Capacity)
    /\ stateChangeHandlers = <<>>
    /\ threshold = Threshold

\* the operations that execute: those whose Run waits in the select of the
\* deadline invoker, and those whose Run timed out
Executing == Cardinality({t \in Procs : pc[t] = "select"}) + orphans

\* o.Execute returns on its goroutine after the Run that started it timed
\* out: its invocation stays in the buffered channel
OperationEnds ==
    /\ orphans > 0
    /\ orphans' = orphans - 1
    /\ UNCHANGED <<breakerVars, counter, pc, runVars, tripVars, changes,
                   calls, givenVars, current>>

RestrictorNext ==
    \/ RunNext
    \/ OperationEnds

RestrictorSpec == RestrictorInit /\ [][RestrictorNext]_vars

(***************************************************************************)
(* C39: under a ConcurrentRunRestrictor of threshold N no more than N      *)
(* operations execute at any time, those whose Run returned with a timeout *)
(* included.                                                               *)
(***************************************************************************)
C39_AtMostThresholdExecute == Executing <= threshold

(***************************************************************************)
(* C40: the state change handlers are called in the order in which the     *)
(* transitions were made: the from of every call is the to of the call     *)
(* before it.                                                              *)
(***************************************************************************)
C40_ChangesInCommitOrder ==
    [][\A t \in Threads :
          /\ pc[t] = "notify"
          /\ changes # <<>>
          /\ TripNotify(t)
          => from[t] = changes[2]
      ]_vars

====
